---------------------------- MODULE Spec2Model ----------------------------
(***************************************************************************)
(* Model of airlab_collector.py: one collection episode of the AirLab MQTT *)
(* logger (single_reading -> read_airlab -> validate_reading ->            *)
(* insert_reading), with the paho network thread running on_connect and    *)
(* on_message concurrently with the polling loop of read_airlab.           *)
(*                                                                         *)
(* Time is counted in quarter seconds, so that a message can be stamped    *)
(* between two polls: time.sleep(0.5) is 2 units, collect_window = 3 s is  *)
(* 12 units and the default timeout of 30 s is 120 units.  time.sleep is   *)
(* taken to last exactly its argument and all other statements of the main *)
(* thread to take no time.                                                 *)
(***************************************************************************)
EXTENDS Integers, Sequences, FiniteSets, TLC

(* ------------------------------ bounds --------------------------------- *)

\* number of messages the broker publishes during one episode
MaxMsgs == 2

(* ------------------------- program constants --------------------------- *)

UnitsPerSecond == 4

\* read_airlab(cfg, timeout: int = 30)
timeout == 30 * UnitsPerSecond

\* collect_window = 3
collect_window == 3 * UnitsPerSecond

\* time.sleep(0.5) in the polling loop
poll_interval == UnitsPerSecond \div 2

\* max_retries = 3
max_retries == 3

\* cfg["base_topic"], default of MQTT_BASE_TOPIC
base_topic == "airlab"

Metrics ==
    {"co2_ppm", "temperature_c", "humidity_percent",
     "pressure_hpa", "voc_index", "nox_index"}

FIELD_ALIASES ==
    [a \in {"co2", "carbon_dioxide", "co2_ppm",
            "temperature", "temp", "temperature_c",
            "humidity", "rh", "relative_humidity", "humidity_percent",
            "pressure", "pressure_hpa",
            "voc", "voc_index", "nox", "nox_index"} |->
        CASE a \in {"co2", "carbon_dioxide", "co2_ppm"} -> "co2_ppm"
          [] a \in {"temperature", "temp", "temperature_c"} -> "temperature_c"
          [] a \in {"humidity", "rh", "relative_humidity", "humidity_percent"}
                -> "humidity_percent"
          [] a \in {"pressure", "pressure_hpa"} -> "pressure_hpa"
          [] a \in {"voc", "voc_index"} -> "voc_index"
          [] a \in {"nox", "nox_index"} -> "nox_index"]

VALID_RANGES ==
    [m \in Metrics |->
        CASE m = "co2_ppm" -> <<150, 10000>>
          [] m = "temperature_c" -> <<-40, 85>>
          [] m = "humidity_percent" -> <<0, 100>>
          [] m = "pressure_hpa" -> <<300, 1200>>
          [] m = "voc_index" -> <<0, 500>>
          [] m = "nox_index" -> <<0, 500>>]

(* --------------------------- pure functions ---------------------------- *)

\* the value None, where a name or a number is expected
NoName == "<none>"
NoFloat == [ok |-> FALSE, v |-> 0, err |-> FALSE]
Float(n) == [ok |-> TRUE, v |-> n, err |-> FALSE]

\* a JSON integer beyond the range of a float: float() raises OverflowError,
\* which is neither ValueError nor TypeError
HugeInt == [ok |-> FALSE, v |-> 0, err |-> TRUE]

\* str.lower().strip() on the raw names that occur in the messages below;
\* a name that is already lower case and trimmed is returned as it is
LowerStrip(s) ==
    CASE s = "CO2" -> "co2"
      [] s = " Temp " -> "temp"
      [] OTHER -> s

canonicalize(field) ==
    LET k == LowerStrip(field)
    IN  IF k \in DOMAIN FIELD_ALIASES THEN FIELD_ALIASES[k] ELSE NoName

\* float(value): the messages carry, for every value, what float() makes of it
try_float(value) == IF value.ok THEN Float(value.v) ELSE NoFloat

\* the exception that leaves try_float, "none" when it returns
try_float_raises(value) == IF value.err THEN "OverflowError" ELSE "none"

EmptyReading == [k \in {} |-> 0]

\* variant: dict.setdefault per entry, an existing value is kept
UpdateKeepFirst(r, p) ==
    [k \in (DOMAIN r) \cup (DOMAIN p) |-> IF k \in DOMAIN r THEN r[k] ELSE p[k]]

\* dict.update / reading[canon] = v
Update(r, p) ==
    [k \in (DOMAIN r) \cup (DOMAIN p) |-> IF k \in DOMAIN p THEN p[k] ELSE r[k]]

RECURSIVE JsonItems(_, _)
JsonItems(items, reading) ==
    IF items = <<>> THEN reading
    ELSE LET key == Head(items)[1]
             value == Head(items)[2]
             canon == canonicalize(key)
             v == try_float(value)
             next == IF canon # NoName /\ v.ok
                       THEN Update(reading, (canon :> v.v))
                       ELSE reading
         IN  JsonItems(Tail(items), next)

\* the exception that leaves the loop of lines 114-119, "none" when it ends
JsonItemsRaises(items) ==
    IF \E i \in DOMAIN items :
          /\ canonicalize(items[i][1]) # NoName
          /\ try_float_raises(items[i][2]) # "none"
      THEN "OverflowError" ELSE "none"

\* A payload is [json, items, num]: json says what json.loads makes of the
\* text ("object", "nonobject", "invalid" when it raises JSONDecodeError, or
\* "toodeep" when the nesting makes it raise RecursionError), items are the
\* key/value pairs of an object in document order, and num is what float()
\* makes of the whole text.
\* The result is [raised, reading]; raised names the exception that leaves
\* the function, "none" when it returns.
parse_json_payload(payload) ==
    CASE payload.json = "invalid" ->
            [raised |-> "JSONDecodeError", reading |-> EmptyReading]
      [] payload.json = "toodeep" ->
            [raised |-> "RecursionError", reading |-> EmptyReading]
      [] payload.json = "nonobject" ->
            [raised |-> "none", reading |-> EmptyReading]
      [] OTHER ->
            IF JsonItemsRaises(payload.items) # "none"
              THEN [raised |-> JsonItemsRaises(payload.items),
                    reading |-> EmptyReading]
              ELSE [raised |-> "none",
                    reading |-> JsonItems(payload.items, EmptyReading)]

\* topic[len(base_topic):].strip("/").split("/") on a topic given as its
\* sequence of segments
Relative(topic, base) ==
    IF topic # <<>> /\ Head(topic) = base THEN Tail(topic) ELSE topic

RECURSIVE ScanReversed(_, _)
ScanReversed(parts, payload) ==
    IF parts = <<>> THEN EmptyReading
    ELSE LET part == parts[Len(parts)]
             canon == canonicalize(part)
             v == try_float(payload.num)
         IN  IF canon # NoName /\ v.ok
               THEN (canon :> v.v)
               ELSE ScanReversed(SubSeq(parts, 1, Len(parts) - 1), payload)

parse_topic_value(topic, payload, base) ==
    ScanReversed(Relative(topic, base), payload)

\* variant: the whole topic is compared with the suffix
EndsWithConfigExact(topic) == topic = <<"config">>

\* topic.endswith("/config")
EndsWithConfig(topic) == Len(topic) >= 2 /\ topic[Len(topic)] = "config"

\* on_message, lines 219-222: the except clause catches JSONDecodeError and
\* ValueError; any other exception leaves on_message
Uncaught(msg) ==
    /\ ~EndsWithConfig(msg.topic)
    /\ parse_json_payload(msg.payload).raised \notin {"none", "JSONDecodeError"}

\* on_message, lines 213-226: the partial reading of one message
Normalize(msg) ==
    IF EndsWithConfig(msg.topic) THEN EmptyReading
    ELSE LET parsed == parse_json_payload(msg.payload).reading
         IN  IF parsed # EmptyReading THEN parsed
             ELSE parse_topic_value(msg.topic, msg.payload, base_topic)

\* variant: the bounds themselves are rejected
InRangeStrict(key, value) ==
    VALID_RANGES[key][1] < value /\ value < VALID_RANGES[key][2]

InRange(key, value) ==
    VALID_RANGES[key][1] <= value /\ value <= VALID_RANGES[key][2]

\* variant: a reading passes as soon as one of its metrics is in range
validate_reading_any(reading) ==
    \E key \in DOMAIN reading :
        key \in DOMAIN VALID_RANGES /\ InRange(key, reading[key])

validate_reading(reading) ==
    \A key \in DOMAIN reading :
        key \in DOMAIN VALID_RANGES => InRange(key, reading[key])

\* lines 140-151: the for loop over reading.items(), keys in dict order
RECURSIVE ValidateLoop(_, _)
ValidateLoop(order, reading) ==
    IF order = <<>> THEN TRUE
    ELSE LET key == Head(order)
         IN  IF key \in DOMAIN VALID_RANGES /\ ~InRange(key, reading[key])
               THEN FALSE
               ELSE ValidateLoop(Tail(order), reading)

\* the parameter dictionary of the INSERT: reading.get(column) per column
NULL == [ok |-> FALSE, v |-> 0, err |-> FALSE]
RowOf(reading) ==
    [m \in Metrics |-> IF m \in DOMAIN reading THEN Float(reading[m]) ELSE NULL]

(* ------------------------------ messages ------------------------------- *)

Obj(items) == [json |-> "object", items |-> items, num |-> NoFloat]
Text(kind, num) == [json |-> kind, items |-> <<>>, num |-> num]

MsgCo2Scalar ==
    [topic |-> <<"airlab", "sensor1", "co2">>,
     payload |-> Text("nonobject", Float(800))]
MsgTempObj ==
    [topic |-> <<"airlab", "state">>,
     payload |-> Obj(<< <<" Temp ", Float(21)>>, <<"unknown_field", NoFloat>> >>)]
MsgHotObj ==
    [topic |-> <<"airlab", "state">>,
     payload |-> Obj(<< <<"temperature", Float(150)>>, <<"CO2", Float(900)>> >>)]
MsgConfig ==
    [topic |-> <<"airlab", "sensor1", "co2", "config">>,
     payload |-> Obj(<< <<"co2", Float(800)>> >>)]
MsgMalformed ==
    [topic |-> <<"airlab", "status">>,
     payload |-> Text("invalid", NoFloat)]
\* {"co2": 1000...0} with 400 digits
MsgHugeInt ==
    [topic |-> <<"airlab", "state">>,
     payload |-> Obj(<< <<"co2", HugeInt>> >>)]
\* [[[[ ... nested beyond the recursion limit
MsgTooDeep ==
    [topic |-> <<"airlab", "state">>,
     payload |-> Text("toodeep", NoFloat)]

Messages ==
    {MsgCo2Scalar, MsgTempObj, MsgHotObj, MsgConfig, MsgMalformed,
     MsgHugeInt, MsgTooDeep}

(* ------------------------------- state --------------------------------- *)

VARIABLES
    pc,             \* position of the main thread
    now,            \* time.monotonic()
    wake,           \* end of the running time.sleep(0.5)
    deadline,       \* read_airlab: deadline
    reading,        \* read_airlab: reading (the dict shared with on_message)
    got_data,       \* read_airlab: got_data
    first_msg_time, \* read_airlab: first_msg_time (a list of at most one time)
    hpc,            \* position of the network thread inside on_message,
                    \* "dead" once an exception has ended the thread
    busRunning,     \* the network thread started by loop_start() is alive
    connack,        \* "none", "ok" (subscribed) or "refused"
    result,         \* what read_airlab returned: "pending", "none", "reading"
    loopStops,      \* completed calls of client.loop_stop()
    disconnects,    \* calls of client.disconnect()
    exitCode,       \* exit status of the process, -1 while it runs
    connOpen,       \* the sqlite connection is open
    table,          \* committed rows of airlab_readings
    pending,        \* rows inserted in the open transaction, not committed
    attempt,        \* insert_reading: attempt
    attempts,       \* history: calls of conn.execute(INSERT)
    errs,           \* history: the storage error of each failed attempt
    sleeps,         \* history: the time.sleep durations of insert_reading
    insResult,      \* history: "none", "ok" (returned) or "raised"
    validated,      \* history: "none", "pass" or "fail"
    connected,      \* history: client.connect() returned
    accepted,       \* history: the non-empty partial readings, in order
    delivered,      \* history: messages handed to on_message
    lastMsg,        \* history: the message on_message was last called with
    argTimeout,     \* main: args.timeout, in seconds
    signal,         \* the signal that ended the process, "none" without one
    fnIn,           \* argument of a function applied on its own
    fnOut           \* its result

vars == <<pc, now, wake, deadline, reading, got_data, first_msg_time, hpc,
          busRunning, connack, result, loopStops, disconnects, exitCode,
          connOpen, table, pending, attempt, attempts, errs, sleeps,
          insResult, validated, connected, accepted, delivered, lastMsg,
          argTimeout, signal, fnIn, fnOut>>

mainVars == <<pc, wake, deadline, result, loopStops, disconnects, exitCode>>
clockVars == <<now>>
busVars == <<reading, got_data, first_msg_time, hpc, connack, accepted,
             delivered, lastMsg>>
dbVars == <<connOpen, table, pending, attempt, attempts, errs, sleeps,
            insResult, validated>>

envVars == <<argTimeout, signal, fnIn, fnOut>>

\* main, lines 313-319: the values given to --timeout, 30 when it is absent
ArgTimeouts == {10, 30}

\* no message yet
NoMsg == [topic |-> <<>>, payload |-> Text("nonobject", NoFloat)]

\* single_reading after init_db(): the table exists and the connection is open
EpisodeInit ==
    /\ pc = "connect"
    /\ now = 0
    /\ wake = 0
    /\ deadline = 0
    /\ reading = EmptyReading
    /\ got_data = FALSE
    /\ first_msg_time = <<>>
    /\ hpc = "idle"
    /\ busRunning = FALSE
    /\ connack = "none"
    /\ result = "pending"
    /\ loopStops = 0
    /\ disconnects = 0
    /\ exitCode = -1
    /\ connOpen = TRUE
    /\ table = <<>>
    /\ pending = <<>>
    /\ attempt = 0
    /\ attempts = 0
    /\ errs = <<>>
    /\ sleeps = <<>>
    /\ insResult = "none"
    /\ validated = "none"
    /\ connected = FALSE
    /\ accepted = <<>>
    /\ delivered = 0
    /\ lastMsg = NoMsg
    /\ argTimeout \in ArgTimeouts
    /\ signal = "none"

Init ==
    /\ EpisodeInit
    /\ fnIn = "none"
    /\ fnOut = "none"


(* --------------------- network thread (paho loop) ---------------------- *)

\* on_connect, lines 201-206: subscribe when the broker accepted the session
on_connect ==
    /\ busRunning
    /\ connack = "none"
    /\ \E reason_code \in {0, 5} :
          connack' = IF reason_code = 0 THEN "ok" ELSE "refused"
    /\ UNCHANGED <<reading, got_data, first_msg_time, hpc, accepted, delivered,
                   lastMsg>>
    /\ UNCHANGED <<mainVars, clockVars, dbVars, busRunning, connected, envVars>>

\* variant: got_data is set for every message that passed the filter
on_message_update_flag_all(msg) ==
    /\ busRunning
    /\ connack = "ok"
    /\ hpc = "idle"
    /\ delivered < MaxMsgs
    /\ delivered' = delivered + 1
    /\ lastMsg' = msg
    /\ IF Uncaught(msg)
         THEN /\ hpc' = "dead"
              /\ UNCHANGED <<reading, accepted, got_data>>
         ELSE LET parsed == Normalize(msg)
              IN  IF parsed # EmptyReading
                    THEN /\ reading' = Update(reading, parsed)
                         /\ accepted' = Append(accepted, parsed)
                         /\ hpc' = "flag"
                         /\ UNCHANGED got_data
                    ELSE /\ got_data' = ~EndsWithConfig(msg.topic) \/ got_data
                         /\ UNCHANGED <<reading, accepted, hpc>>
    /\ UNCHANGED <<first_msg_time, connack>>
    /\ UNCHANGED <<mainVars, clockVars, dbVars, busRunning, connected, envVars>>

\* variant: the network thread keeps running after loop_stop()
on_message_update_unstopped(msg) ==
    /\ connack = "ok"
    /\ hpc = "idle"
    /\ pc # "exited"
    /\ delivered < MaxMsgs
    /\ delivered' = delivered + 1
    /\ lastMsg' = msg
    /\ IF Uncaught(msg)
         THEN /\ hpc' = "dead"
              /\ UNCHANGED <<reading, accepted>>
         ELSE LET parsed == Normalize(msg)
              IN  IF parsed # EmptyReading
                    THEN /\ reading' = Update(reading, parsed)
                         /\ accepted' = Append(accepted, parsed)
                         /\ hpc' = "flag"
                    ELSE UNCHANGED <<reading, accepted, hpc>>
    /\ UNCHANGED <<got_data, first_msg_time, connack>>
    /\ UNCHANGED <<mainVars, clockVars, dbVars, busRunning, connected, envVars>>

\* on_message, lines 208-229: filter, normalize, and merge a non-empty result.
\* A message that is filtered or normalizes to {} ends the handler here.  An
\* exception that leaves on_message is re-raised by the client library and
\* ends the network thread.
on_message_update(msg) ==
    /\ busRunning
    /\ connack = "ok"
    /\ hpc = "idle"
    /\ delivered < MaxMsgs
    /\ delivered' = delivered + 1
    /\ lastMsg' = msg
    /\ IF Uncaught(msg)
         THEN /\ hpc' = "dead"
              /\ UNCHANGED <<reading, accepted>>
         ELSE LET parsed == Normalize(msg)
              IN  IF parsed # EmptyReading
                    THEN /\ reading' = Update(reading, parsed)
                         /\ accepted' = Append(accepted, parsed)
                         /\ hpc' = "flag"
                    ELSE UNCHANGED <<reading, accepted, hpc>>
    /\ UNCHANGED <<got_data, first_msg_time, connack>>
    /\ UNCHANGED <<mainVars, clockVars, dbVars, busRunning, connected, envVars>>

\* on_message, line 230
on_message_flag ==
    /\ hpc = "flag"
    /\ got_data' = TRUE
    /\ hpc' = "stamp"
    /\ UNCHANGED <<reading, first_msg_time, connack, accepted, delivered, lastMsg>>
    /\ UNCHANGED <<mainVars, clockVars, dbVars, busRunning, connected, envVars>>

\* variant: every accepted message stamps its own time
on_message_stamp_always ==
    /\ hpc = "stamp"
    /\ first_msg_time' = <<now>>
    /\ hpc' = "idle"
    /\ UNCHANGED <<reading, got_data, connack, accepted, delivered, lastMsg>>
    /\ UNCHANGED <<mainVars, clockVars, dbVars, busRunning, connected, envVars>>

\* on_message, lines 231-233
on_message_stamp ==
    /\ hpc = "stamp"
    /\ first_msg_time' = IF first_msg_time = <<>> THEN <<now>> ELSE first_msg_time
    /\ hpc' = "idle"
    /\ UNCHANGED <<reading, got_data, connack, accepted, delivered, lastMsg>>
    /\ UNCHANGED <<mainVars, clockVars, dbVars, busRunning, connected, envVars>>

(* ----------------------- main thread: read_airlab ---------------------- *)

\* lines 246-250: client.connect() returns or raises
Connect ==
    /\ pc = "connect"
    /\ \E ok \in BOOLEAN :
          IF ok THEN /\ connected' = TRUE
                     /\ pc' = "loop_start"
                     /\ UNCHANGED result
                ELSE /\ result' = "none"
                     /\ pc' = "sr_check"
                     /\ UNCHANGED connected
    /\ UNCHANGED <<wake, deadline, loopStops, disconnects, exitCode>>
    /\ UNCHANGED <<clockVars, busVars, dbVars, busRunning, envVars>>

\* lines 253-255
LoopStart ==
    /\ pc = "loop_start"
    /\ busRunning' = TRUE
    /\ deadline' = now + timeout
    /\ pc' = "loop_check"
    /\ UNCHANGED <<wake, result, loopStops, disconnects, exitCode>>
    /\ UNCHANGED <<clockVars, busVars, dbVars, connected, envVars>>

\* variant: once a first message is stamped only the window ends the loop
LoopCheckExtend ==
    /\ pc = "loop_check"
    /\ IF now < deadline \/ first_msg_time # <<>>
         THEN /\ wake' = now + poll_interval
              /\ pc' = "sleeping"
         ELSE /\ pc' = "loop_stop"
              /\ UNCHANGED wake
    /\ UNCHANGED <<deadline, result, loopStops, disconnects, exitCode>>
    /\ UNCHANGED <<clockVars, busVars, dbVars, busRunning, connected, envVars>>

\* line 257 and the call of time.sleep on line 258
LoopCheck ==
    /\ pc = "loop_check"
    /\ IF now < deadline
         THEN /\ wake' = now + poll_interval
              /\ pc' = "sleeping"
         ELSE /\ pc' = "loop_stop"
              /\ UNCHANGED wake
    /\ UNCHANGED <<deadline, result, loopStops, disconnects, exitCode>>
    /\ UNCHANGED <<clockVars, busVars, dbVars, busRunning, connected, envVars>>

\* the clock advances while the main thread sleeps
Tick ==
    /\ pc = "sleeping"
    /\ now < wake
    /\ now' = now + 1
    /\ UNCHANGED <<mainVars, busVars, dbVars, busRunning, connected, envVars>>

\* variant: the window must be exceeded, not only reached
WindowOverStrict(fmt, t) == fmt # <<>> /\ t - fmt[1] > collect_window

\* the stop test of lines 260-263
WindowOver(fmt, t) == fmt # <<>> /\ t - fmt[1] >= collect_window

\* lines 258-263: time.sleep returns, then the stop policy is evaluated
Poll ==
    /\ pc = "sleeping"
    /\ now = wake
    /\ pc' = IF WindowOver(first_msg_time, now) THEN "loop_stop" ELSE "loop_check"
    /\ UNCHANGED <<wake, deadline, result, loopStops, disconnects, exitCode>>
    /\ UNCHANGED <<clockVars, busVars, dbVars, busRunning, connected, envVars>>

\* line 265, first half: loop_stop() asks the network thread to terminate
LoopStop ==
    /\ pc = "loop_stop"
    /\ pc' = "joining"
    /\ UNCHANGED <<wake, deadline, result, loopStops, disconnects, exitCode>>
    /\ UNCHANGED <<clockVars, busVars, dbVars, busRunning, connected, envVars>>

\* variant: the network thread is not joined
JoinNoWait ==
    /\ pc = "joining"
    /\ busRunning' = FALSE
    /\ loopStops' = loopStops + 1
    /\ pc' = "disconnect"
    /\ UNCHANGED <<wake, deadline, result, disconnects, exitCode>>
    /\ UNCHANGED <<clockVars, busVars, dbVars, connected, envVars>>

\* line 265, second half: loop_stop() joins the network thread, which ends
\* after the callback it is running
Join ==
    /\ pc = "joining"
    /\ hpc \in {"idle", "dead"}
    /\ busRunning' = FALSE
    /\ loopStops' = loopStops + 1
    /\ pc' = "disconnect"
    /\ UNCHANGED <<wake, deadline, result, disconnects, exitCode>>
    /\ UNCHANGED <<clockVars, busVars, dbVars, connected, envVars>>

\* variant: the no-data return comes before the cleanup
DisconnectIfData ==
    /\ pc = "disconnect"
    /\ disconnects' = IF got_data THEN disconnects + 1 ELSE disconnects
    /\ pc' = "return"
    /\ UNCHANGED <<wake, deadline, result, loopStops, exitCode>>
    /\ UNCHANGED <<clockVars, busVars, dbVars, busRunning, connected, envVars>>

\* line 266
Disconnect ==
    /\ pc = "disconnect"
    /\ disconnects' = disconnects + 1
    /\ pc' = "return"
    /\ UNCHANGED <<wake, deadline, result, loopStops, exitCode>>
    /\ UNCHANGED <<clockVars, busVars, dbVars, busRunning, connected, envVars>>

\* variant: a run that reached the absolute deadline is reported as no data
ReturnNoneOnTimeout ==
    /\ pc = "return"
    /\ result' = IF ~got_data \/ now >= deadline THEN "none" ELSE "reading"
    /\ pc' = "sr_check"
    /\ UNCHANGED <<wake, deadline, loopStops, disconnects, exitCode>>
    /\ UNCHANGED <<clockVars, busVars, dbVars, busRunning, connected, envVars>>

\* variant: the dict is returned without the got_data test
ReturnAlways ==
    /\ pc = "return"
    /\ result' = "reading"
    /\ pc' = "sr_check"
    /\ UNCHANGED <<wake, deadline, loopStops, disconnects, exitCode>>
    /\ UNCHANGED <<clockVars, busVars, dbVars, busRunning, connected, envVars>>

\* lines 268-272: the returned dict is the dict on_message writes to
Return ==
    /\ pc = "return"
    /\ result' = IF ~got_data THEN "none" ELSE "reading"
    /\ pc' = "sr_check"
    /\ UNCHANGED <<wake, deadline, loopStops, disconnects, exitCode>>
    /\ UNCHANGED <<clockVars, busVars, dbVars, busRunning, connected, envVars>>

\* A signal arrives while read_airlab is in its loop (lines 257-263).  The
\* program installs no handler: SIGTERM ends the process at once, SIGINT
\* raises KeyboardInterrupt in the main thread, which leaves read_airlab
\* without reaching lines 265-266 and passes the finally clause of
\* single_reading.  The network thread is a daemon thread and ends with the
\* process.
Signal ==
    /\ pc \in {"loop_check", "sleeping"}
    /\ \E sig \in {"SIGTERM", "SIGINT"} :
          /\ signal' = sig
          /\ exitCode' = IF sig = "SIGTERM" THEN 143 ELSE 130
    /\ pc' = "exited"
    /\ connOpen' = FALSE
    /\ busRunning' = FALSE
    /\ UNCHANGED <<wake, deadline, result, loopStops, disconnects>>
    /\ UNCHANGED <<table, pending, attempt, attempts, errs, sleeps, insResult,
                   validated>>
    /\ UNCHANGED <<clockVars, busVars, connected, argTimeout, fnIn, fnOut>>

(* --------------- main thread: single_reading, insert_reading ----------- *)

\* lines 280-295: the tests on the value read_airlab returned
SingleReadingCheck ==
    /\ pc = "sr_check"
    /\ CASE result = "none" ->
               /\ exitCode' = 1
               /\ pc' = "close"
               /\ UNCHANGED <<validated, attempt>>
         [] result # "none" /\ reading = EmptyReading ->
               /\ exitCode' = 1
               /\ pc' = "close"
               /\ UNCHANGED <<validated, attempt>>
         [] OTHER ->
               IF validate_reading(reading)
                 THEN /\ validated' = "pass"
                      /\ attempt' = 0
                      /\ pc' = "ins_exec"
                      /\ UNCHANGED exitCode
                 ELSE /\ validated' = "fail"
                      /\ exitCode' = 0
                      /\ pc' = "close"
                      /\ UNCHANGED attempt
    /\ UNCHANGED <<wake, deadline, result, loopStops, disconnects>>
    /\ UNCHANGED <<connOpen, table, pending, attempts, errs, sleeps, insResult>>
    /\ UNCHANGED <<clockVars, busVars, busRunning, connected, envVars>>

\* The failures of the storage engine: "locked" is sqlite3.OperationalError
\* with 'database is locked', "operational" any other OperationalError (disk
\* full, read-only file), "database" an error of another class (corruption).
StorageErrors == {"locked", "operational", "database"}

\* variant: every OperationalError is retried, whatever its message
ShouldRetryAnyOperational(err, att) ==
    err \in {"locked", "operational"} /\ att < max_retries - 1

\* lines 178-179: the except clause and its retry test
ShouldRetry(err, att) ==
    err \in {"locked", "operational"} /\ err = "locked" /\ att < max_retries - 1

\* line 185: time.sleep(0.5 * (attempt + 1)), in quarter seconds
Backoff(att) == (UnitsPerSecond \div 2) * (att + 1)

\* lines 178-187: what the for loop does with a failure of the try block
InsertFail(err) ==
    /\ errs' = Append(errs, err)
    /\ IF ShouldRetry(err, attempt)
         THEN /\ sleeps' = Append(sleeps, Backoff(attempt))
              /\ attempt' = attempt + 1
              /\ pc' = "ins_exec"
              /\ UNCHANGED <<insResult, exitCode>>
         ELSE /\ insResult' = "raised"
              /\ exitCode' = 1
              /\ pc' = "close"
              /\ UNCHANGED <<sleeps, attempt>>

\* lines 158-175: conn.execute(INSERT ...).  The statement opens a
\* transaction when none is open; a statement that fails leaves no row.
InsertExecute ==
    /\ pc = "ins_exec"
    /\ attempts' = attempts + 1
    /\ \/ /\ pending' = Append(pending, RowOf(reading))
          /\ pc' = "ins_commit"
          /\ UNCHANGED <<errs, sleeps, attempt, insResult, exitCode>>
       \/ /\ \E err \in StorageErrors : InsertFail(err)
          /\ UNCHANGED pending
    /\ UNCHANGED <<wake, deadline, result, loopStops, disconnects>>
    /\ UNCHANGED <<connOpen, table, validated>>
    /\ UNCHANGED <<clockVars, busVars, busRunning, connected, envVars>>

\* lines 176-177: conn.commit().  A commit that fails leaves the transaction
\* open with the rows inserted so far.
InsertCommit ==
    /\ pc = "ins_commit"
    /\ \/ /\ table' = table \o pending
          /\ pending' = <<>>
          /\ insResult' = "ok"
          /\ exitCode' = 0
          /\ pc' = "close"
          /\ UNCHANGED <<errs, sleeps, attempt>>
       \/ /\ \E err \in StorageErrors : InsertFail(err)
          /\ UNCHANGED <<table, pending>>
    /\ UNCHANGED <<wake, deadline, result, loopStops, disconnects>>
    /\ UNCHANGED <<connOpen, attempts, validated>>
    /\ UNCHANGED <<clockVars, busVars, busRunning, connected, envVars>>

\* lines 296-297 and the end of the process: conn.close() in the finally
\* clause discards an open transaction
Close ==
    /\ pc = "close"
    /\ connOpen' = FALSE
    /\ pending' = <<>>
    /\ pc' = "exited"
    /\ UNCHANGED <<wake, deadline, result, loopStops, disconnects, exitCode>>
    /\ UNCHANGED <<table, attempt, attempts, errs, sleeps, insResult, validated>>
    /\ UNCHANGED <<clockVars, busVars, busRunning, connected, envVars>>

(* --------------------------- specification ----------------------------- *)

MainStep ==
    \/ Connect
    \/ LoopStart
    \/ LoopCheck
    \/ Poll
    \/ LoopStop
    \/ Join
    \/ Disconnect
    \/ Return
    \/ SingleReadingCheck
    \/ InsertExecute
    \/ InsertCommit
    \/ Close

BusStep ==
    \/ on_connect
    \/ \E msg \in Messages : on_message_update(msg)
    \/ on_message_flag
    \/ on_message_stamp

Next == MainStep \/ BusStep \/ Tick \/ Signal

Spec == Init /\ [][Next]_vars

\* The interpreter schedules both threads and the clock runs.
FairSpec == Spec /\ WF_vars(MainStep) /\ WF_vars(BusStep) /\ WF_vars(Tick)

TypeOK ==
    /\ pc \in {"connect", "loop_start", "loop_check", "sleeping", "loop_stop",
               "joining", "disconnect", "return", "sr_check", "ins_exec",
               "ins_commit", "close", "exited"}
    /\ now \in Nat /\ wake \in Nat /\ deadline \in Nat
    /\ DOMAIN reading \subseteq Metrics
    /\ got_data \in BOOLEAN
    /\ Len(first_msg_time) <= 1
    /\ hpc \in {"idle", "flag", "stamp", "dead"}
    /\ exitCode \in {-1, 0, 1, 130, 143}
    /\ argTimeout \in ArgTimeouts
    /\ signal \in {"none", "SIGTERM", "SIGINT"}

(* -------------------- validate_reading on its own ---------------------- *)

\* number of metrics in a reading given to validate_reading
MaxKeys == 3

\* values at and next to the bounds of a metric
BoundaryValues(m) ==
    {VALID_RANGES[m][1] - 1, VALID_RANGES[m][1],
     VALID_RANGES[m][2], VALID_RANGES[m][2] + 1}

\* the orders in which a dict with the keys ks can list them
Orders(ks) ==
    {o \in [1..Cardinality(ks) -> ks] : \A i, j \in DOMAIN o : o[i] = o[j] => i = j}

ReadingsOver(ks) ==
    {r \in [ks -> UNION {BoundaryValues(m) : m \in ks}] :
        \A m \in ks : r[m] \in BoundaryValues(m)}

ValidateInputs ==
    UNION {{[reading |-> r, order |-> o] : r \in ReadingsOver(ks), o \in Orders(ks)} :
           ks \in {k \in SUBSET Metrics : Cardinality(k) <= MaxKeys}}

ValidateInit ==
    /\ EpisodeInit
    /\ fnIn \in ValidateInputs
    /\ fnOut = "none"

\* validate_reading(reading), lines 139-151
ApplyValidate ==
    /\ fnOut = "none"
    /\ fnOut' = IF ValidateLoop(fnIn.order, fnIn.reading) THEN "pass" ELSE "fail"
    /\ UNCHANGED <<mainVars, clockVars, busVars, dbVars, busRunning, connected,
                   argTimeout, signal, fnIn>>

ValidateSpec == ValidateInit /\ [][ApplyValidate]_vars

(* ---------------------- normalization on its own ----------------------- *)

\* segments of a topic after the base, and entries of a JSON object
MaxSegs == 2
MaxItems == 2

SeqsUpTo(S, n) == UNION {[1..k -> S] : k \in 0..n}

NormTopics ==
    {<<base_topic>> \o t :
        t \in SeqsUpTo({"sensor1", "co2", " Temp ", "config"}, MaxSegs)}

NormPayloads ==
    {Obj(items) :
        items \in SeqsUpTo({"co2", "carbon_dioxide", " Temp ", "unknown_field"}
                             \X {Float(800), Float(21), NoFloat, HugeInt},
                          MaxItems)}
    \cup {Text(kind, num) : kind \in {"nonobject", "invalid"},
                             num \in {Float(800), NoFloat}}
    \cup {Text("toodeep", NoFloat)}

NormInputs == {[topic |-> t, payload |-> q] : t \in NormTopics, q \in NormPayloads}

NormalizeInit ==
    /\ EpisodeInit
    /\ fnIn \in NormInputs
    /\ fnOut = [raised |-> "pending", reading |-> EmptyReading]

\* on_message, lines 213-226, up to the value of parsed on line 228
ApplyNormalize ==
    /\ fnOut.raised = "pending"
    /\ fnOut' = IF Uncaught(fnIn)
                  THEN [raised |-> parse_json_payload(fnIn.payload).raised,
                        reading |-> EmptyReading]
                  ELSE [raised |-> "none", reading |-> Normalize(fnIn)]
    /\ UNCHANGED <<mainVars, clockVars, busVars, dbVars, busRunning, connected,
                   argTimeout, signal, fnIn>>

NormalizeSpec == NormalizeInit /\ [][ApplyNormalize]_vars

(* ------------------------------ properties ----------------------------- *)

PostLoop ==
    /\ connected
    /\ signal = "none"
    /\ pc \in {"loop_stop", "joining", "disconnect", "return", "sr_check",
               "ins_exec", "ins_commit", "close", "exited"}

Returned ==
    /\ result # "pending"
    /\ pc \in {"sr_check", "ins_exec", "ins_commit", "close", "exited"}

\* some metric of r lies outside its validity range
OutOfRange(r) ==
    \E k \in DOMAIN r :
        r[k] < VALID_RANGES[k][1] \/ r[k] > VALID_RANGES[k][2]

NoStorageActivity == attempts = 0 /\ pending = <<>> /\ table = <<>>

\* C1: a record is inserted only if the whole reading passed validation; when
\* one present metric is out of range, insert_reading is never called and the
\* table stays as it was, whatever the other metrics are.
C1_InsertOnlyIfValid ==
    /\ OutOfRange(reading) /\ Returned => NoStorageActivity
    /\ ~NoStorageActivity => validated = "pass" /\ ~OutOfRange(reading)
    /\ validated = "fail" => NoStorageActivity /\ insResult = "none"

C1_Witness ==
    /\ pc = "exited"
    /\ validated = "fail"
    /\ reading = ("temperature_c" :> 150 @@ "co2_ppm" :> 900)
    /\ table = <<>>

\* C2: the process exits non-zero when the connection fails, when no data
\* arrived, when the reading is empty or when validation fails, and exits
\* zero only when the durable write succeeded.
C2_ExitStatus ==
    pc = "exited" =>
        /\ (~connected \/ result = "none" \/ reading = EmptyReading
              \/ validated = "fail") => exitCode # 0
        /\ exitCode = 0 => insResult = "ok"

\* C3: under any pattern of 'database is locked' failures of execute or
\* commit, a successful insert_reading leaves exactly one record of the
\* reading, a failed one leaves none once the episode has ended, and an
\* episode never stores more than one record.
C3_ExactlyOnce ==
    /\ insResult = "ok" => table = <<RowOf(reading)>>
    /\ pc = "exited" /\ insResult = "raised" => table = <<>> /\ pending = <<>>
    /\ Len(table) <= 1

\* C4: at most 3 attempts and at most 2 sleeps, each sleep between two
\* attempts and the second longer than the first; a contention failure of
\* attempt 1 or 2 is retried, one of attempt 3 propagates, and any other
\* storage failure propagates on the attempt where it occurs.
C4_BoundedRetry ==
    /\ attempts <= 3
    /\ Len(sleeps) <= 2
    /\ Len(sleeps) <= attempts
    /\ Len(sleeps) = attempts /\ attempts > 0 => pc = "ins_exec"
    /\ Len(sleeps) = 2 => sleeps[2] > sleeps[1]
    /\ insResult = "raised" => errs # <<>>
    /\ \A i \in DOMAIN errs :
          /\ errs[i] # "locked" =>
                /\ i = Len(errs)
                /\ insResult = "raised"
                /\ attempts = i
                /\ Len(sleeps) = i - 1
          /\ errs[i] = "locked" /\ i < 3 =>
                /\ Len(sleeps) >= i
                /\ attempts > i \/ pc = "ins_exec"
                /\ i = Len(errs) => insResult # "raised"
          /\ errs[i] = "locked" /\ i = 3 =>
                /\ insResult = "raised"
                /\ attempts = 3
                /\ Len(sleeps) = 2

C4_Witness ==
    /\ pc = "close"
    /\ insResult = "raised"
    /\ errs = <<"locked", "locked", "locked">>
    /\ Len(sleeps) = 2

InLoop == pc \in {"loop_check", "sleeping"}

\* C5: when the first accepted message is stamped at t1 and t1 + 3 s lies
\* before the absolute deadline, the loop is not left before t1 + 3 s, is left
\* at the first poll at or after t1 + 3 s, and the returned reading has every
\* metric of every accepted message; {co2_ppm: 800} at t = 0 followed by
\* {temperature_c: 21} completes at t = 3 s with both metrics.
C5_CollectionWindow ==
    /\ first_msg_time # <<>> /\ first_msg_time[1] + 12 < deadline =>
          /\ InLoop => now < first_msg_time[1] + 12 + 2
          /\ PostLoop =>
                /\ now >= first_msg_time[1] + 12
                /\ now < first_msg_time[1] + 12 + 2
                /\ now % 2 = 0
          /\ PostLoop /\ Returned =>
                /\ result = "reading"
                /\ \A i \in DOMAIN accepted :
                      DOMAIN accepted[i] \subseteq DOMAIN reading
    /\ /\ PostLoop /\ Returned
       /\ first_msg_time = <<0>>
       /\ accepted = <<("co2_ppm" :> 800), ("temperature_c" :> 21)>>
       => /\ now = 12
          /\ reading = ("co2_ppm" :> 800 @@ "temperature_c" :> 21)

\* first message stamped between two polls: the loop ends 3.25 s later
C5_Witness ==
    /\ pc = "sr_check"
    /\ result = "reading"
    /\ first_msg_time = <<1>>
    /\ now = 14
    /\ accepted = <<("co2_ppm" :> 800), ("temperature_c" :> 21)>>

\* C6: an episode without any accepted message ends after the overall
\* timeout with read_airlab returning None, and nothing is written.
C6_NoData ==
    connected /\ Returned /\ accepted = <<>> =>
        /\ result = "none"
        /\ now >= timeout
        /\ NoStorageActivity
        /\ validated = "none"
        /\ pc = "exited" => exitCode = 1

\* every delivered message was filtered or normalized to {}
C6_Witness ==
    /\ pc = "exited"
    /\ connected
    /\ delivered = MaxMsgs
    /\ accepted = <<>>
    /\ result = "none"

\* C7: the collecting loop is left at most one polling interval after the
\* absolute deadline = loop start + overall timeout, for every arrival
\* pattern and whether or not the collection window was started or reached;
\* the deadline is never moved; every connected episode leaves the loop.
C7_Safety ==
    /\ deadline \in {0, timeout}
    /\ pc \notin {"connect", "loop_start"} /\ connected => deadline = timeout
    /\ InLoop => now <= deadline /\ wake < deadline + 2
    /\ PostLoop => now < deadline + 2

C7_Terminates ==
    /\ []C7_Safety
    /\ [][deadline # 0 => deadline' = deadline]_vars
    /\ (pc = "loop_start") ~> (pc \in {"loop_stop", "exited"})

\* the deadline ends the loop while the collection window is still running
C7_Witness ==
    /\ pc = "loop_stop"
    /\ now = deadline
    /\ first_msg_time # <<>>
    /\ now - first_msg_time[1] < collect_window

\* C8: on every terminal transition of an episode that reached the loop,
\* the network loop is stopped and disconnect is called exactly once before
\* read_airlab returns.
C8_DisconnectOnce ==
    /\ loopStops <= 1
    /\ disconnects <= 1
    /\ disconnects = 1 => loopStops = 1
    /\ connected /\ Returned => loopStops = 1 /\ disconnects = 1
    /\ ~connected => loopStops = 0 /\ disconnects = 0
    /\ pc \in {"connect", "loop_start", "loop_check", "sleeping", "loop_stop",
               "joining"} => disconnects = 0

\* the absolute deadline passed without any data
C8_Witness ==
    /\ pc = "sr_check"
    /\ connected
    /\ result = "none"
    /\ disconnects = 1
    /\ now = timeout

\* C9: no update is lost and no torn state is seen: every entry of every
\* accepted message is in the returned reading unless a later accepted
\* message overwrote that metric, and whenever first_msg_time is set the
\* reading already holds the entries of the first accepted message.
C9_NoLostUpdate ==
    /\ connected /\ Returned =>
          /\ hpc \notin {"flag", "stamp"}
          /\ accepted # <<>> => result = "reading"
          /\ \A i \in DOMAIN accepted : \A k \in DOMAIN accepted[i] :
                /\ k \in DOMAIN reading
                /\ \/ reading[k] = accepted[i][k]
                   \/ \E j \in DOMAIN accepted :
                         j > i /\ k \in DOMAIN accepted[j]
    /\ first_msg_time # <<>> =>
          /\ accepted # <<>>
          /\ got_data
          /\ DOMAIN accepted[1] \subseteq DOMAIN reading

\* a message was merged after the loop had ended, while loop_stop() waited
C9_Witness ==
    /\ pc = "sr_check"
    /\ result = "reading"
    /\ first_msg_time = <<timeout>>
    /\ Len(accepted) = 1

\* the value of metric k in the last accepted message that carries it
LastValue(log, k) ==
    LET last == CHOOSE i \in DOMAIN log :
                    /\ k \in DOMAIN log[i]
                    /\ \A j \in DOMAIN log : j > i => k \notin DOMAIN log[j]
    IN  log[last][k]

Carried(log) == UNION {DOMAIN log[i] : i \in DOMAIN log}

\* C10: merging is last-write-wins per metric: the reading holds, for every
\* metric, exactly the value of the most recent accepted message carrying it
\* and no entry for a metric no accepted message carried; a message never
\* removes or changes a metric it does not carry.
C10_LastWriteWins ==
    /\ [](/\ DOMAIN reading = Carried(accepted)
          /\ \A k \in DOMAIN reading : reading[k] = LastValue(accepted, k))
    /\ [][\A k \in DOMAIN reading :
             /\ k \in DOMAIN reading'
             /\ reading'[k] # reading[k] =>
                   /\ Len(accepted') = Len(accepted) + 1
                   /\ k \in DOMAIN accepted'[Len(accepted')]
                   /\ reading'[k] = accepted'[Len(accepted')][k]]_vars

\* the later message overwrote co2_ppm and left temperature_c alone
C10_Witness ==
    /\ accepted = <<("temperature_c" :> 150 @@ "co2_ppm" :> 900),
                    ("co2_ppm" :> 800)>>
    /\ reading = ("temperature_c" :> 150 @@ "co2_ppm" :> 800)

\* C11: normalization in on_message never raises, whatever the payload and
\* the channel; a message that normalizes to {} leaves the reading, got_data
\* and first_msg_time as they were, and later messages are still accepted.
C11_NormalizeNeverRaises ==
    /\ hpc # "dead"
    /\ accepted = <<>> =>
          reading = EmptyReading /\ ~got_data /\ first_msg_time = <<>>
    /\ delivered > Len(accepted) /\ busRunning => hpc \in {"idle", "flag", "stamp"}

\* C12: a message on a channel ending in /config is ignored before it is
\* normalized: whatever its payload, the reading, got_data and first_msg_time
\* stay as they were and the collection window is not started.
C12_ConfigIgnored ==
    [][/\ delivered' = delivered + 1
       /\ Len(lastMsg'.topic) >= 2
       /\ lastMsg'.topic[Len(lastMsg'.topic)] = "config"
       => /\ UNCHANGED <<reading, got_data, first_msg_time, accepted>>
          /\ hpc' = "idle"]_vars

\* a discovery message with a valid co2 value arrives after a reading of 900
C12_Witness ==
    /\ lastMsg = MsgConfig
    /\ delivered = 2
    /\ accepted = <<("temperature_c" :> 150 @@ "co2_ppm" :> 900)>>
    /\ reading = ("temperature_c" :> 150 @@ "co2_ppm" :> 900)
    /\ hpc = "idle"

\* C13: the absolute deadline is the start of the loop plus the timeout given
\* with --timeout, so a run without any accepted message reports the no-data
\* failure after that many seconds.
C13_TimeoutOption ==
    /\ connected /\ pc \notin {"connect", "loop_start"} =>
          deadline = argTimeout * 4
    /\ connected /\ Returned /\ result = "none" => now = argTimeout * 4

\* C14: when a termination signal arrives while read_airlab is in its loop,
\* the network loop is stopped and disconnect is called before the process
\* exits, and no reading is written.
C14_SignalTeardown ==
    signal # "none" =>
        /\ pc = "exited"
        /\ loopStops = 1
        /\ disconnects = 1
        /\ NoStorageActivity

\* C15: when the absolute deadline passes while the collection window is
\* running, read_airlab returns the accumulated reading if it is non-empty
\* and reports no data otherwise; it never reports no data while holding an
\* accepted metric and never returns a reading when nothing was accepted.
C15_DeadlineDuringWindow ==
    connected /\ Returned =>
        /\ result = "none" => reading = EmptyReading /\ accepted = <<>>
        /\ result = "reading" => reading # EmptyReading /\ accepted # <<>>
        /\ /\ first_msg_time # <<>>
           /\ now >= deadline
           /\ now - first_msg_time[1] < 12
           => result = "reading" /\ reading # EmptyReading

\* the first message was stamped 1 s before the deadline
C15_Witness ==
    /\ pc = "sr_check"
    /\ result = "reading"
    /\ now = deadline
    /\ first_msg_time = <<deadline - 4>>

\* C16: first_msg_time set implies a non-empty reading in every state; when
\* read_airlab reads got_data, it holds exactly when the reading is
\* non-empty; so read_airlab never returns an empty dict and the 'Empty
\* reading' branch of single_reading is never taken.
C16_NonEmptyWhenFlagged ==
    /\ first_msg_time # <<>> => reading # EmptyReading
    /\ got_data => reading # EmptyReading
    /\ pc = "return" => (got_data <=> reading # EmptyReading)
    /\ result = "reading" => reading # EmptyReading
    /\ pc = "sr_check" => ~(result # "none" /\ reading = EmptyReading)

\* the flag test is reached after a message was merged while loop_stop()
\* waited for the handler
C16_Witness ==
    /\ pc = "return"
    /\ got_data
    /\ first_msg_time = <<timeout>>
    /\ delivered = 2
    /\ Len(accepted) = 1

PostJoin ==
    pc \in {"disconnect", "return", "sr_check", "ins_exec", "ins_commit",
            "close", "exited"}

\* C17: once read_airlab has left the loop and loop_stop() has returned, no
\* on_message execution changes the reading, so the dict validate_reading
\* checks is the dict insert_reading writes, even when the broker goes on
\* publishing.
C17_FrozenReading ==
    /\ [](PostJoin /\ connected /\ signal = "none" =>
             ~busRunning /\ hpc \in {"idle", "dead"})
    /\ [](\A i \in DOMAIN pending : pending[i] = RowOf(reading))
    /\ [](\A i \in DOMAIN table : table[i] = RowOf(reading))
    /\ [][PostJoin => reading' = reading /\ accepted' = accepted]_vars

\* a row is written while the broker still has a message to publish
C17_Witness ==
    /\ pc = "ins_commit"
    /\ connack = "ok"
    /\ delivered < MaxMsgs
    /\ pending = <<RowOf(reading)>>
    /\ reading = ("co2_ppm" :> 800)

\* C18: first_msg_time is written at most once, by the first accepted
\* message: once set it never changes, so later accepted messages are merged
\* without moving the end of the window, and messages that are filtered or
\* normalize to {} never set it.
C18_StampedOnce ==
    /\ [](Len(first_msg_time) <= 1)
    /\ [](first_msg_time # <<>> => accepted # <<>>)
    /\ [][first_msg_time # <<>> => first_msg_time' = first_msg_time]_vars
    /\ [][first_msg_time = <<>> /\ first_msg_time' # <<>> =>
             /\ Len(accepted) = 1
             /\ first_msg_time' = <<now>>
             /\ reading' = reading]_vars

\* a second message was merged 1 s after the first and the stamp stayed
C18_Witness ==
    /\ hpc = "idle"
    /\ Len(accepted) = 2
    /\ first_msg_time = <<0>>
    /\ now = 4
    /\ got_data

\* the validity ranges as the interface of the system states them
C19_Ranges ==
    ("co2_ppm" :> <<150, 10000>> @@ "temperature_c" :> <<-40, 85>> @@
     "humidity_percent" :> <<0, 100>> @@ "pressure_hpa" :> <<300, 1200>> @@
     "voc_index" :> <<0, 500>> @@ "nox_index" :> <<0, 500>>)

\* C19: validate_reading passes exactly when every present metric has
\* min <= v <= max, bounds included; absent metrics are not checked, the
\* empty reading passes, and one metric out of range fails the reading
\* whatever the other metrics and the order of examination.
C19_ValidateExact ==
    /\ fnOut # "none" =>
          /\ fnOut = "pass" <=>
                \A k \in DOMAIN fnIn.reading :
                    /\ C19_Ranges[k][1] <= fnIn.reading[k]
                    /\ fnIn.reading[k] <= C19_Ranges[k][2]
          /\ fnOut = "pass" <=> validate_reading(fnIn.reading)
          /\ \A o \in Orders(DOMAIN fnIn.reading) :
                ValidateLoop(o, fnIn.reading) = (fnOut = "pass")
          /\ fnIn.reading = EmptyReading => fnOut = "pass"

\* both values sit on a bound
C19_Witness ==
    /\ fnOut = "pass"
    /\ fnIn.reading = ("temperature_c" :> 85 @@ "co2_ppm" :> 150)
    /\ fnIn.order = <<"temperature_c", "co2_ppm">>

\* the entries of a JSON object whose key is an alias and whose value is a
\* number, the last entry of a metric giving its value
C20_Structured(items) ==
    LET good == {i \in DOMAIN items :
                    canonicalize(items[i][1]) # NoName /\ ~items[i][2].err
                        /\ items[i][2].ok}
        last(c) == CHOOSE i \in good :
                      /\ canonicalize(items[i][1]) = c
                      /\ \A j \in good :
                            canonicalize(items[j][1]) = c => j <= i
    IN  [c \in {canonicalize(items[i][1]) : i \in good} |-> items[last(c)][2].v]

\* the metric of the rightmost recognized segment after the base, with the
\* payload as its value
C20_Scalar(topic, payload) ==
    LET segs == IF Head(topic) = "airlab" THEN Tail(topic) ELSE topic
        known == {i \in DOMAIN segs : canonicalize(segs[i]) # NoName}
        right == CHOOSE i \in known : \A j \in known : j <= i
    IN  IF known # {} /\ payload.num.ok
          THEN (canonicalize(segs[right]) :> payload.num.v)
          ELSE EmptyReading

C20_Expected(msg) ==
    IF msg.payload.json = "object"
         /\ {i \in DOMAIN msg.payload.items :
                canonicalize(msg.payload.items[i][1]) # NoName
                    /\ msg.payload.items[i][2].ok} # {}
      THEN C20_Structured(msg.payload.items)
      ELSE C20_Scalar(msg.topic, msg.payload)

NotConfig(topic) == topic[Len(topic)] # "config"

\* C20: the structured result is used whenever it is non-empty and holds
\* exactly the canonical keys whose values are numbers; the scalar shape is
\* used only when it is empty and reports the metric of the rightmost
\* recognized segment, or nothing when the payload is not a number.
C20_ShapeOrder ==
    fnOut.raised # "pending" /\ NotConfig(fnIn.topic) =>
        /\ fnOut.raised = "none"
        /\ fnOut.reading = C20_Expected(fnIn)

\* what remains of C20 for the payloads on which on_message returns
C20_WhenReturns ==
    fnOut.raised = "none" /\ NotConfig(fnIn.topic) =>
        fnOut.reading = C20_Expected(fnIn)

=============================================================================
